---- MODULE Spec2Model ----
(***************************************************************************)
(* A model of FastRAMQPI's FastAPI bootstrap facility                      *)
(* (src/fastramqpi/fastapi.py) and of the integration-test fixtures        *)
(* (src/fastramqpi/pytest_plugin.py).                                      *)
(*                                                                         *)
(* Three specifications share the module:                                  *)
(*   Spec          registration of health checks and user context, and the *)
(*                 liveness / readiness probes;                            *)
(*   SpecLifespan  registration of lifespan managers and the ASGI lifespan *)
(*                 (startup, serving, shutdown) built on AsyncExitStack;   *)
(*   SpecHarness   the fixtures of a test marked integration_test.         *)
(***************************************************************************)
EXTENDS Integers, Sequences, FiniteSets, TLC

\* ------------------------------------------------------------------ bounds
\* Health-check names are 1..MaxNames.
MaxNames == 2
\* Lifespan managers (object identities) are 1..NumManagers.
NumManagers == 2
\* The harness clock stops ticking at MaxTime.
MaxTime == 7
\* Queues the broker may hold before a test are 1..NumQueues.
NumQueues == 2

\* ------------------------------------------------------- program constants
HTTP_204_NO_CONTENT == 204
HTTP_503_SERVICE_UNAVAILABLE == 503
\* add_lifespan_manager(self, manager, priority: int = 1000)
DefaultPriority == 1000
\* await asyncio.sleep(3)
SleepInterval == 3

\* ------------------------------------------------------------ input domains
HealthcheckNames == 1..MaxNames
\* Identities of the callbacks handed to add_healthcheck.
HealthcheckFunctions == {"f", "g"}
\* What awaiting a health check can do: return a truthy value, return a falsy
\* value, or raise an Exception.
Outcomes == {"true", "false", "raise"}
\* Keyword names and values handed to add_context.
Keys == {"a", "b"}
Values == {1, 2}
Managers == 1..NumManagers
Priorities == {10, DefaultPriority, 2000}

\* The empty dict.
EmptyMap == [k \in {} |-> 0]

VARIABLES
    \* ---- the shared context (FastAPIIntegrationSystem._context)
    name,               \* context["name"]
    settings,           \* context["settings"]
    healthchecks,       \* context["healthchecks"]: insertion-ordered dict, a
                        \* sequence of [name, healthcheck]
    lifespan_managers,  \* context["lifespan_managers"]: priority -> set
    user_context,       \* context["user_context"]: key -> value
    \* ---- what the last call or request did, as its caller sees it
    last,
    \* ---- the ASGI lifespan (_lifespan)
    phase,              \* where the lifespan generator is
    todo,               \* sorted (priority, managers still to iterate) pairs
    stack,              \* AsyncExitStack: the exit callbacks pushed so far
    exc,                \* the exception in flight while the stack unwinds
    entered,            \* every __aenter__ awaited: [priority, manager, ok]
    exited,             \* every __aexit__ awaited: [priority, manager]
    \* ---- the fixtures of one integration test
    hpc,                \* the fixture (or test body) that runs
    now,                \* the event loop's clock, in seconds
    task,               \* the emitter task: its state
    created_at,         \* when create_task(emitter()) was called
    wake_at,            \* when the emitter's sleep ends
    cancel_requested,   \* task.cancel() was called on a task not yet done
    emits,              \* the times at which emit requests were sent
    broker,             \* the queues the broker holds
    deletes,            \* the DELETE requests in flight: queue names
    answers,            \* the answers the backing services gave
    errors              \* the exceptions that reached pytest, by fixture

ctx_vars == <<name, settings, healthchecks, lifespan_managers, user_context>>
lifespan_vars == <<phase, todo, stack, exc, entered, exited>>
harness_vars == <<hpc, now, task, created_at, wake_at, cancel_requested,
                  emits, broker, deletes, answers, errors>>
vars == <<ctx_vars, last, lifespan_vars, harness_vars>>

\* ===================================================== the shared context
\* FastAPIIntegrationSystem.__init__: the context a fresh instance holds.
InitContext ==
    /\ name = "integration"
    /\ settings = "settings"
    /\ healthchecks = <<>>
    /\ user_context = EmptyMap

NoCall == [op |-> "none", args |-> EmptyMap, status |-> 0, raised |-> "none",
           calls |-> <<>>]

\* The keys of the healthchecks dict, in insertion order.
HealthcheckKeys(hcs) == [i \in 1..Len(hcs) |-> hcs[i].name]

\* add_healthcheck without the duplicate test: a later registration
\* replaces the callback bound to the name.
add_healthcheck_overwrite(n, healthcheck) ==
    /\ healthchecks' =
           IF \E i \in 1..Len(healthchecks) : healthchecks[i].name = n
           THEN [i \in 1..Len(healthchecks) |->
                    IF healthchecks[i].name = n
                    THEN [name |-> n, healthcheck |-> healthcheck]
                    ELSE healthchecks[i]]
           ELSE Append(healthchecks, [name |-> n, healthcheck |-> healthcheck])
    /\ last' = [NoCall EXCEPT !.op = "add_healthcheck",
                    !.args = [name |-> n, healthcheck |-> healthcheck]]
    /\ UNCHANGED <<name, settings, lifespan_managers, user_context>>
    /\ UNCHANGED <<lifespan_vars, harness_vars>>

\* FastAPIIntegrationSystem.add_healthcheck(name, healthcheck)
add_healthcheck(n, healthcheck) ==
    /\ IF \E i \in 1..Len(healthchecks) : healthchecks[i].name = n
       THEN \* raise ValueError("Name already used")
            /\ healthchecks' = healthchecks
            /\ last' = [NoCall EXCEPT !.op = "add_healthcheck",
                            !.args = [name |-> n, healthcheck |-> healthcheck],
                            !.raised = "ValueError"]
       ELSE /\ healthchecks' =
                   Append(healthchecks, [name |-> n, healthcheck |-> healthcheck])
            /\ last' = [NoCall EXCEPT !.op = "add_healthcheck",
                            !.args = [name |-> n, healthcheck |-> healthcheck]]
    /\ UNCHANGED <<name, settings, lifespan_managers, user_context>>
    /\ UNCHANGED <<lifespan_vars, harness_vars>>

\* dict.update(**kwargs)
DictUpdate(d, kwargs) ==
    [k \in DOMAIN d \cup DOMAIN kwargs |->
        IF k \in DOMAIN kwargs THEN kwargs[k] ELSE d[k]]

\* A merge that keeps the value a key already has (dict.setdefault per key).
DictSetDefault(d, kwargs) ==
    [k \in DOMAIN d \cup DOMAIN kwargs |->
        IF k \in DOMAIN d THEN d[k] ELSE kwargs[k]]

\* add_context with first-write-wins merging.
add_context_setdefault(kwargs) ==
    /\ user_context' = DictSetDefault(user_context, kwargs)
    /\ last' = [NoCall EXCEPT !.op = "add_context", !.args = kwargs]
    /\ UNCHANGED <<name, settings, healthchecks, lifespan_managers>>
    /\ UNCHANGED <<lifespan_vars, harness_vars>>

\* FastAPIIntegrationSystem.add_context(**kwargs)
add_context(kwargs) ==
    /\ user_context' = DictUpdate(user_context, kwargs)
    /\ last' = [NoCall EXCEPT !.op = "add_context", !.args = kwargs]
    /\ UNCHANGED <<name, settings, healthchecks, lifespan_managers>>
    /\ UNCHANGED <<lifespan_vars, harness_vars>>

\* The keyword arguments a call of add_context may carry.
Kwargs == UNION {[D -> Values] : D \in SUBSET Keys}

\* ================================================================ probes
\* A liveness handler that answers from the health checks, as readiness does.
liveness_checks ==
    /\ last' = [NoCall EXCEPT !.op = "liveness",
                    !.status = IF healthchecks = <<>>
                               THEN HTTP_204_NO_CONTENT
                               ELSE HTTP_503_SERVICE_UNAVAILABLE,
                    !.calls = [i \in 1..Len(healthchecks) |->
                                  [name |-> healthchecks[i].name,
                                   healthcheck |-> healthchecks[i].healthcheck,
                                   context |-> name,
                                   outcome |-> "false"]]]
    /\ UNCHANGED <<ctx_vars, lifespan_vars, harness_vars>>

\* GET /health/live: liveness() returns None under status_code 204.
liveness ==
    /\ last' = [NoCall EXCEPT !.op = "liveness",
                    !.status = HTTP_204_NO_CONTENT]
    /\ UNCHANGED <<ctx_vars, lifespan_vars, harness_vars>>

\* The state of readiness() as its loop starts.
LoopStart == [all_ready |-> TRUE, exception |-> FALSE, calls |-> <<>>]

\* One awaited call of a health check, as the handler's log records it.
Call(hc, outcome) ==
    [name |-> hc.name, healthcheck |-> hc.healthcheck, context |-> name,
     outcome |-> outcome]

RECURSIVE readiness_loop_break(_, _, _, _)
\* The loop of readiness() with a break after the first check that is not
\* ready.
readiness_loop_break(hcs, outcome, i, st) ==
    IF i > Len(hcs) THEN st
    ELSE LET st1 == [st EXCEPT !.calls = Append(@, Call(hcs[i], outcome[i]))]
         IN  IF outcome[i] = "raise" THEN [st1 EXCEPT !.exception = TRUE]
             ELSE IF outcome[i] = "false"
                  THEN [st1 EXCEPT !.all_ready = FALSE]
                  ELSE readiness_loop_break(hcs, outcome, i + 1, st1)

RECURSIVE readiness_loop(_, _, _, _)
\* for name, healthcheck in healthchecks.items(): ready = await
\* healthcheck(context); if not ready: all_ready = False.  An exception
\* leaves the loop for the except clause.  outcome[i] is what the i-th
\* registered check does when awaited.
readiness_loop(hcs, outcome, i, st) ==
    IF i > Len(hcs) THEN st
    ELSE LET st1 == [st EXCEPT !.calls = Append(@, Call(hcs[i], outcome[i]))]
         IN  IF outcome[i] = "raise" THEN [st1 EXCEPT !.exception = TRUE]
             ELSE IF outcome[i] = "false"
                  THEN readiness_loop(hcs, outcome, i + 1,
                                      [st1 EXCEPT !.all_ready = FALSE])
                  ELSE readiness_loop(hcs, outcome, i + 1, st1)

\* The status readiness() leaves in the response, were the except clause
\* only to log.
readiness_status_no_except(st) ==
    IF ~st.all_ready THEN HTTP_503_SERVICE_UNAVAILABLE
    ELSE HTTP_204_NO_CONTENT

\* The status readiness() leaves in the response: 204 first, 503 in the
\* except clause, 503 if not all_ready.
readiness_status(st) ==
    LET s0 == HTTP_204_NO_CONTENT
        s1 == IF st.exception THEN HTTP_503_SERVICE_UNAVAILABLE ELSE s0
    IN  IF ~st.all_ready THEN HTTP_503_SERVICE_UNAVAILABLE ELSE s1

\* GET /health/ready
readiness(outcome) ==
    LET st == readiness_loop(healthchecks, outcome, 1, LoopStart)
    IN  /\ last' = [NoCall EXCEPT !.op = "readiness",
                        !.status = readiness_status(st),
                        !.calls = st.calls]
        /\ UNCHANGED <<ctx_vars, lifespan_vars, harness_vars>>

\* ============================================================== lifespan
\* The (priority, manager) pairs a lifespan_managers mapping holds.
Pairs(lm) == {pm \in (DOMAIN lm) \X Managers : pm[2] \in lm[pm[1]]}

\* The arguments a call of add_lifespan_manager may carry: the priority is
\* optional.
LifespanArgs ==
    [manager : Managers] \cup [manager : Managers, priority : Priorities]

\* add_lifespan_manager binding the priority to a fresh set each time:
\* context["lifespan_managers"][priority] = {manager}.
add_lifespan_manager_replace(kw) ==
    LET priority == IF "priority" \in DOMAIN kw THEN kw.priority
                    ELSE DefaultPriority
    IN  /\ phase = "setup"
        /\ lifespan_managers' =
               [p \in DOMAIN lifespan_managers \cup {priority} |->
                   IF p = priority THEN {kw.manager}
                   ELSE lifespan_managers[p]]
        /\ last' = [NoCall EXCEPT !.op = "add_lifespan_manager", !.args = kw]
        /\ UNCHANGED <<name, settings, healthchecks, user_context>>
        /\ UNCHANGED <<lifespan_vars, harness_vars>>

\* FastAPIIntegrationSystem.add_lifespan_manager(manager, priority=1000),
\* called before the application starts.
add_lifespan_manager(kw) ==
    LET priority == IF "priority" \in DOMAIN kw THEN kw.priority
                    ELSE DefaultPriority
        \* setdefault(priority, set())
        priority_set == IF priority \in DOMAIN lifespan_managers
                        THEN lifespan_managers[priority] ELSE {}
    IN  /\ phase = "setup"
        /\ lifespan_managers' =
               [p \in DOMAIN lifespan_managers \cup {priority} |->
                   IF p = priority THEN priority_set \cup {kw.manager}
                   ELSE lifespan_managers[p]]
        /\ last' = [NoCall EXCEPT !.op = "add_lifespan_manager", !.args = kw]
        /\ UNCHANGED <<name, settings, healthchecks, user_context>>
        /\ UNCHANGED <<lifespan_vars, harness_vars>>

RECURSIVE sorted_reverse(_)
\* sorted(..., reverse=True): the items by descending priority.
sorted_reverse(lm) ==
    IF DOMAIN lm = {} THEN <<>>
    ELSE LET p == CHOOSE x \in DOMAIN lm : \A y \in DOMAIN lm : x >= y
         IN  <<[priority |-> p, left |-> lm[p]]>>
             \o sorted_reverse([q \in DOMAIN lm \ {p} |-> lm[q]])

RECURSIVE sorted(_)
\* sorted(lifespan_managers.items()): the (priority, set) items by ascending
\* priority; the keys of a dict are distinct, so the sets are never compared.
sorted(lm) ==
    IF DOMAIN lm = {} THEN <<>>
    ELSE LET p == CHOOSE x \in DOMAIN lm : \A y \in DOMAIN lm : x <= y
         IN  <<[priority |-> p, left |-> lm[p]]>>
             \o sorted([q \in DOMAIN lm \ {p} |-> lm[q]])

\* The items still to iterate once manager m of the first item is done.
Advance(items, m) ==
    IF Head(items).left = {m} THEN Tail(items)
    ELSE <<[Head(items) EXCEPT !.left = @ \ {m}]>> \o Tail(items)

\* The ASGI server opens the lifespan: async with AsyncExitStack() as stack,
\* and the sorted items are computed.
lifespan_start ==
    /\ phase = "setup"
    /\ phase' = "starting"
    /\ todo' = sorted(lifespan_managers)
    /\ last' = [NoCall EXCEPT !.op = "_lifespan"]
    /\ UNCHANGED <<stack, exc, entered, exited>>
    /\ UNCHANGED <<ctx_vars, harness_vars>>

\* enter_async_context registering the exit callback before __aenter__ has
\* returned, so that a manager whose entry failed is exited too.
lifespan_enter_push_first(m, ok) ==
    /\ phase = "starting"
    /\ todo # <<>>
    /\ m \in Head(todo).left
    /\ entered' = Append(entered, [priority |-> Head(todo).priority,
                                   manager |-> m, ok |-> ok])
    /\ stack' = Append(stack, [priority |-> Head(todo).priority,
                               manager |-> m])
    /\ IF ok
       THEN /\ todo' = Advance(todo, m)
            /\ UNCHANGED <<phase, exc>>
       ELSE /\ phase' = "unwinding"
            /\ exc' = "error"
            /\ UNCHANGED todo
    /\ UNCHANGED <<exited, last, ctx_vars, harness_vars>>

\* await stack.enter_async_context(lifespan_manager), for the next manager
\* of the set being iterated (a set's iteration order is unspecified).  If
\* __aenter__ raises, no exit callback is pushed and the exception leaves
\* the for loops into AsyncExitStack.__aexit__.
lifespan_enter(m, ok) ==
    /\ phase = "starting"
    /\ todo # <<>>
    /\ m \in Head(todo).left
    /\ entered' = Append(entered, [priority |-> Head(todo).priority,
                                   manager |-> m, ok |-> ok])
    /\ IF ok
       THEN /\ stack' = Append(stack, [priority |-> Head(todo).priority,
                                       manager |-> m])
            /\ todo' = Advance(todo, m)
            /\ UNCHANGED <<phase, exc>>
       ELSE /\ phase' = "unwinding"
            /\ exc' = "error"
            /\ UNCHANGED <<stack, todo>>
    /\ UNCHANGED <<exited, last, ctx_vars, harness_vars>>

\* Every manager is entered: the generator reaches its yield and the
\* application serves.
lifespan_yield ==
    /\ phase = "starting"
    /\ todo = <<>>
    /\ phase' = "serving"
    /\ UNCHANGED <<todo, stack, exc, entered, exited>>
    /\ UNCHANGED <<last, ctx_vars, harness_vars>>

\* The application shuts down: the generator is resumed at its yield, with
\* the exception thrown into it if the server has one (e is "none" or
\* "error"), and the async with block is left.
lifespan_shutdown(e) ==
    /\ phase = "serving"
    /\ phase' = "stopping"
    /\ exc' = e
    /\ UNCHANGED <<todo, stack, entered, exited>>
    /\ UNCHANGED <<last, ctx_vars, harness_vars>>

\* AsyncExitStack.__aexit__, one callback: the last manager pushed is
\* exited.  Its __aexit__ returns a falsy value ("none"), returns a truthy
\* value which suppresses the exception in flight ("suppress"), or raises
\* ("raise"), which replaces the exception in flight; the loop goes on to
\* the next callback in each case.
lifespan_exit(outcome) ==
    /\ phase \in {"stopping", "unwinding"}
    /\ stack # <<>>
    /\ exited' = Append(exited, stack[Len(stack)])
    /\ stack' = SubSeq(stack, 1, Len(stack) - 1)
    /\ exc' = CASE outcome = "raise" -> "error"
                [] outcome = "suppress" -> "none"
                [] OTHER -> exc
    /\ UNCHANGED <<phase, todo, entered>>
    /\ UNCHANGED <<last, ctx_vars, harness_vars>>

\* The exit stack is empty: the async with statement ends.  After a failed
\* startup the exception in flight leaves _lifespan; had an exit callback
\* suppressed it, the generator returns without having yielded and
\* asynccontextmanager raises RuntimeError("generator didn't yield").
lifespan_end ==
    /\ phase \in {"stopping", "unwinding"}
    /\ stack = <<>>
    /\ IF phase = "unwinding"
       THEN /\ phase' = "startup_failed"
            /\ last' = [last EXCEPT !.raised =
                            IF exc = "none" THEN "RuntimeError" ELSE "error"]
       ELSE /\ phase' = "stopped"
            /\ last' = [last EXCEPT !.raised = exc]
    /\ UNCHANGED <<todo, stack, exc, entered, exited>>
    /\ UNCHANGED <<ctx_vars, harness_vars>>

InitLifespan ==
    /\ phase = "setup"
    /\ todo = <<>>
    /\ stack = <<>>
    /\ exc = "none"
    /\ entered = <<>>
    /\ exited = <<>>

\* ========================================================= test harness
\* pytest_collection_modifyitems prepends the fixtures of an integration
\* test; pytest sets them up in that order and tears them down in reverse.
\* Modelled are the fixtures that talk to a backing service over HTTP:
\* amqp_event_emitter, os2mo_database_snapshot_and_restore and
\* amqp_queue_isolation.  hpc runs through
\*   emitter_setup, snapshot, queue_list, queue_delete, test_body,
\*   restore, emitter_cancel, emitter_await, done.
Queues == 1..NumQueues

\* How an HTTP request ends: a 2xx response, a 4xx/5xx response (httpx
\* returns it like any other; only raise_for_status() turns it into an
\* exception), or no response at all (httpx raises a transport error).
Answers == {"ok", "http_error", "transport_error"}

\* An emitter task that is not done.
Running == {"created", "sleeping", "posting"}

Answer(req, q, a) == [req |-> req, queue |-> q, answer |-> a]

\* The event loop's clock advances.
tick ==
    /\ now < MaxTime
    /\ hpc # "done" \/ task \in Running
    /\ now' = now + 1
    /\ UNCHANGED <<hpc, task, created_at, wake_at, cancel_requested, emits,
                   broker, deletes, answers, errors>>
    /\ UNCHANGED <<ctx_vars, last, lifespan_vars>>

\* amqp_event_emitter, setup: task = create_task(emitter()); yield.
emitter_setup ==
    /\ hpc = "emitter_setup"
    /\ task' = "created"
    /\ created_at' = now
    /\ hpc' = "snapshot"
    /\ UNCHANGED <<now, wake_at, cancel_requested, emits, broker, deletes,
                   answers, errors>>
    /\ UNCHANGED <<ctx_vars, last, lifespan_vars>>

\* The emitter task runs for the first time: await asyncio.sleep(3).
emitter_start ==
    /\ task = "created"
    /\ ~cancel_requested
    /\ task' = "sleeping"
    /\ wake_at' = now + SleepInterval
    /\ UNCHANGED <<hpc, now, created_at, cancel_requested, emits, broker,
                   deletes, answers, errors>>
    /\ UNCHANGED <<ctx_vars, last, lifespan_vars>>

\* The sleep is over: r = await mo_client.post("/testing/amqp/emit") sends
\* the request.
emitter_wake ==
    /\ task = "sleeping"
    /\ ~cancel_requested
    /\ now >= wake_at
    /\ task' = "posting"
    /\ emits' = Append(emits, now)
    /\ UNCHANGED <<hpc, now, created_at, wake_at, cancel_requested, broker,
                   deletes, answers, errors>>
    /\ UNCHANGED <<ctx_vars, last, lifespan_vars>>

\* The emit request ends and the task resumes: r.raise_for_status(), then
\* the next round of the loop sleeps again.  An exception ends the task,
\* which keeps it until the task is awaited.
emitter_answer(a) ==
    /\ task = "posting"
    /\ ~cancel_requested
    /\ answers' = answers \cup {Answer("emit", 0, a)}
    /\ IF a = "ok"
       THEN /\ task' = "sleeping"
            /\ wake_at' = now + SleepInterval
       ELSE /\ task' = "failed"
            /\ UNCHANGED wake_at
    /\ UNCHANGED <<hpc, now, created_at, cancel_requested, emits, broker,
                   deletes, errors>>
    /\ UNCHANGED <<ctx_vars, last, lifespan_vars>>

\* The task runs after task.cancel(): CancelledError is thrown into the
\* coroutine wherever it waits, and ends the task.
emitter_cancelled ==
    /\ task \in Running
    /\ cancel_requested
    /\ task' = "cancelled"
    /\ UNCHANGED <<hpc, now, created_at, wake_at, cancel_requested, emits,
                   broker, deletes, answers, errors>>
    /\ UNCHANGED <<ctx_vars, last, lifespan_vars>>

\* os2mo_database_snapshot_and_restore, setup:
\* r = await mo_client.post("/testing/database/snapshot");
\* r.raise_for_status().  If the setup raises, the fixtures after it and the
\* test body do not run, and the fixtures set up before it are torn down.
snapshot(a) ==
    /\ hpc = "snapshot"
    /\ answers' = answers \cup {Answer("snapshot", 0, a)}
    /\ IF a = "ok"
       THEN /\ hpc' = "queue_list"
            /\ UNCHANGED errors
       ELSE /\ hpc' = "emitter_cancel"
            /\ errors' = errors \cup {"os2mo_database_snapshot_and_restore"}
    /\ UNCHANGED <<now, task, created_at, wake_at, cancel_requested, emits,
                   broker, deletes>>
    /\ UNCHANGED <<ctx_vars, last, lifespan_vars>>

\* amqp_queue_isolation: queues = (await client.get("queues")).json(), and
\* one client.delete(url) coroutine per queue, handed to asyncio.gather.
\* No raise_for_status(): an error response is read like a queue list.  The
\* management API answers an error with a JSON object, and iterating it
\* yields its keys, on which q["vhost"] raises TypeError.
queue_list(a) ==
    /\ hpc = "queue_list"
    /\ answers' = answers \cup {Answer("queue_list", 0, a)}
    /\ IF a = "ok"
       THEN /\ deletes' = broker
            /\ hpc' = "queue_delete"
            /\ UNCHANGED errors
       ELSE /\ hpc' = "restore"
            /\ errors' = errors \cup {"amqp_queue_isolation"}
            /\ UNCHANGED deletes
    /\ UNCHANGED <<now, task, created_at, wake_at, cancel_requested, emits,
                   broker>>
    /\ UNCHANGED <<ctx_vars, last, lifespan_vars>>

\* await asyncio.gather(*deletes): one of the concurrent DELETE requests
\* ends, in no particular order.  A response, whatever its status, is the
\* coroutine's result and gather drops it.  A transport error is raised out
\* of gather at once and fails the fixture; the other requests are not
\* cancelled, and those in `others` still reach the broker before the
\* client is closed.
delete_answer(q, a, others) ==
    /\ hpc = "queue_delete"
    /\ q \in deletes
    /\ answers' = answers \cup {Answer("delete", q, a)}
    /\ IF a = "transport_error"
       THEN /\ others \subseteq deletes \ {q}
            /\ broker' = broker \ others
            /\ deletes' = {}
            /\ hpc' = "restore"
            /\ errors' = errors \cup {"amqp_queue_isolation"}
       ELSE /\ broker' = IF a = "ok" THEN broker \ {q} ELSE broker
            /\ deletes' = deletes \ {q}
            /\ others = {}
            /\ UNCHANGED <<hpc, errors>>
    /\ UNCHANGED <<now, task, created_at, wake_at, cancel_requested, emits>>
    /\ UNCHANGED <<ctx_vars, last, lifespan_vars>>

\* Every delete has returned: gather returns, the fixture is set up and the
\* test body starts.
gather_done ==
    /\ hpc = "queue_delete"
    /\ deletes = {}
    /\ hpc' = "test_body"
    /\ UNCHANGED <<now, task, created_at, wake_at, cancel_requested, emits,
                   broker, deletes, answers, errors>>
    /\ UNCHANGED <<ctx_vars, last, lifespan_vars>>

\* The test body ends; teardown starts.
test_body_end ==
    /\ hpc = "test_body"
    /\ hpc' = "restore"
    /\ UNCHANGED <<now, task, created_at, wake_at, cancel_requested, emits,
                   broker, deletes, answers, errors>>
    /\ UNCHANGED <<ctx_vars, last, lifespan_vars>>

\* os2mo_database_snapshot_and_restore, teardown:
\* r = await mo_client.post("/testing/database/restore");
\* r.raise_for_status().  pytest goes on to the remaining teardowns.
restore(a) ==
    /\ hpc = "restore"
    /\ answers' = answers \cup {Answer("restore", 0, a)}
    /\ errors' = IF a = "ok" THEN errors
                 ELSE errors \cup {"os2mo_database_snapshot_and_restore"}
    /\ hpc' = "emitter_cancel"
    /\ UNCHANGED <<now, task, created_at, wake_at, cancel_requested, emits,
                   broker, deletes>>
    /\ UNCHANGED <<ctx_vars, last, lifespan_vars>>

\* amqp_event_emitter, teardown: task.cancel().  On a task that is done it
\* does nothing.
emitter_cancel ==
    /\ hpc = "emitter_cancel"
    /\ cancel_requested' = (task \in Running)
    /\ hpc' = "emitter_await"
    /\ UNCHANGED <<now, task, created_at, wake_at, emits, broker, deletes,
                   answers, errors>>
    /\ UNCHANGED <<ctx_vars, last, lifespan_vars>>

\* The teardown with suppress(Exception): whatever the task raised is
\* dropped.
emitter_await_suppress_all ==
    /\ hpc = "emitter_await"
    /\ task \in {"cancelled", "failed"}
    /\ hpc' = "done"
    /\ UNCHANGED <<now, task, created_at, wake_at, cancel_requested, emits,
                   broker, deletes, answers, errors>>
    /\ UNCHANGED <<ctx_vars, last, lifespan_vars>>

\* amqp_event_emitter, teardown: with suppress(CancelledError): await task.
\* The await returns once the task is done: the CancelledError of a
\* cancelled task is suppressed, the exception of a failed task is raised.
emitter_await ==
    /\ hpc = "emitter_await"
    /\ task \in {"cancelled", "failed"}
    /\ errors' = IF task = "failed" THEN errors \cup {"amqp_event_emitter"}
                 ELSE errors
    /\ hpc' = "done"
    /\ UNCHANGED <<now, task, created_at, wake_at, cancel_requested, emits,
                   broker, deletes, answers>>
    /\ UNCHANGED <<ctx_vars, last, lifespan_vars>>

InitHarness ==
    /\ hpc = "emitter_setup"
    /\ now = 0
    /\ task = "none"
    /\ created_at = 0
    /\ wake_at = 0
    /\ cancel_requested = FALSE
    /\ emits = <<>>
    /\ deletes = {}
    /\ answers = {}
    /\ errors = {}

\* ======================================================= specifications
\* Lifespan registries an application may hold when it serves probes.
SampleLifespanManagers ==
    { EmptyMap,
      [p \in {10} |-> {1}],
      [p \in {10, DefaultPriority} |-> IF p = 10 THEN {1} ELSE Managers] }

\* Registration of health checks and context, and the probes.
Init ==
    /\ InitContext
    /\ lifespan_managers \in SampleLifespanManagers
    /\ last = NoCall
    /\ InitLifespan
    /\ InitHarness
    /\ broker = {}

Next ==
    \/ \E n \in HealthcheckNames, h \in HealthcheckFunctions :
           add_healthcheck(n, h)
    \/ \E kwargs \in Kwargs : add_context(kwargs)
    \/ liveness
    \/ \E outcome \in [1..Len(healthchecks) -> Outcomes] : readiness(outcome)

Spec == Init /\ [][Next]_vars

\* Registration of lifespan managers, and the lifespan.
InitL ==
    /\ InitContext
    /\ lifespan_managers = EmptyMap
    /\ last = NoCall
    /\ InitLifespan
    /\ InitHarness
    /\ broker = {}

NextL ==
    \/ \E kw \in LifespanArgs : add_lifespan_manager(kw)
    \/ lifespan_start
    \/ \E m \in Managers, ok \in BOOLEAN : lifespan_enter(m, ok)
    \/ lifespan_yield
    \/ \E e \in {"none", "error"} : lifespan_shutdown(e)
    \/ \E outcome \in {"none", "suppress", "raise"} : lifespan_exit(outcome)
    \/ lifespan_end

SpecLifespan == InitL /\ [][NextL]_vars

\* The fixtures of one integration test, against a broker holding any of
\* the queues.
InitH ==
    /\ InitContext
    /\ lifespan_managers = EmptyMap
    /\ last = NoCall
    /\ InitLifespan
    /\ InitHarness
    /\ broker \in SUBSET Queues

NextH ==
    \/ tick
    \/ emitter_setup
    \/ emitter_start
    \/ emitter_wake
    \/ \E a \in Answers : emitter_answer(a)
    \/ emitter_cancelled
    \/ \E a \in Answers : snapshot(a)
    \/ \E a \in Answers : queue_list(a)
    \/ \E q \in Queues, a \in Answers, others \in SUBSET Queues :
           delete_answer(q, a, others)
    \/ gather_done
    \/ test_body_end
    \/ \E a \in Answers : restore(a)
    \/ emitter_cancel
    \/ emitter_await

SpecHarness == InitH /\ [][NextH]_vars

\* ================================================================ claims
Reverse(s) == [i \in 1..Len(s) |-> s[Len(s) + 1 - i]]
Pair(e) == [priority |-> e.priority, manager |-> e.manager]
\* The managers entered with success, in entry order.
EnteredOk == SelectSeq(entered, LAMBDA e : e.ok)
Range(s) == {s[i] : i \in 1..Len(s)}

\* C1: a readiness probe answers 204 exactly when every registered health
\* check was awaited and returned true; it answers 503 when a check returned
\* false or raised; it answers with a status in every case and raises
\* nothing.
C1_ReadinessStatus ==
    [][last'.op = "readiness" =>
         LET calls == last'.calls
             n == Len(healthchecks)
             all_true ==
                 /\ Len(calls) = n
                 /\ \A i \in 1..n :
                        /\ calls[i].name = healthchecks[i].name
                        /\ calls[i].healthcheck = healthchecks[i].healthcheck
                        /\ calls[i].outcome = "true"
         IN  /\ last'.raised = "none"
             /\ last'.status \in {HTTP_204_NO_CONTENT,
                                  HTTP_503_SERVICE_UNAVAILABLE}
             /\ (last'.status = HTTP_204_NO_CONTENT) <=> all_true
             /\ (\E i \in 1..Len(calls) :
                     calls[i].outcome \in {"false", "raise"})
                => last'.status = HTTP_503_SERVICE_UNAVAILABLE]_vars

\* C1, witness: a probe of two checks, the first true and the second
\* raising, was answered 503.
C1_Witness ==
    /\ last.op = "readiness"
    /\ Len(healthchecks) = 2
    /\ Len(last.calls) = 2
    /\ last.calls[1].outcome = "true"
    /\ last.calls[2].outcome = "raise"
    /\ last.status = HTTP_503_SERVICE_UNAVAILABLE
    /\ last.raised = "none"

\* C2: managers are entered in ascending priority order, every registered
\* manager of a lower priority before any of a higher one, and the exits
\* run in the exact reverse of the order of the successful entries.
C2_PriorityOrder ==
    /\ \A i, j \in 1..Len(entered) :
           i < j => entered[i].priority <= entered[j].priority
    /\ \A j \in 1..Len(entered) :
           \A pm \in Pairs(lifespan_managers) :
               pm[1] < entered[j].priority =>
                   \E i \in 1..(j - 1) :
                       /\ entered[i].priority = pm[1]
                       /\ entered[i].manager = pm[2]
    /\ [i \in 1..Len(EnteredOk) |-> Pair(EnteredOk[i])]
           = stack \o Reverse(exited)
    /\ phase \in {"stopped", "startup_failed"} => stack = <<>>

\* C2, witness: a lifespan that entered a manager of one priority, then two
\* of a higher one, and has exited all three.
C2_Witness ==
    /\ phase = "stopped"
    /\ Len(entered) = 3
    /\ Len(exited) = 3
    /\ entered[1].priority < entered[2].priority
    /\ entered[2].priority = entered[3].priority
    /\ exited[1].manager = entered[3].manager

\* C3: when entering the k-th manager fails, it is the last one entered,
\* the application never serves, the exits are those of the first k-1
\* managers in reverse entry order, and the failing manager is not exited.
C3_FailedStartup ==
    \A k \in 1..Len(entered) :
        ~entered[k].ok =>
            LET before == [i \in 1..(k - 1) |-> Pair(entered[i])]
            IN  /\ k = Len(entered)
                /\ phase \in {"unwinding", "startup_failed"}
                /\ before = stack \o Reverse(exited)
                /\ Pair(entered[k]) \notin Range(exited)
                /\ phase = "startup_failed" => exited = Reverse(before)

\* C3, witness: the third entry failed and the two managers entered before
\* it have been exited.
C3_Witness ==
    /\ phase = "startup_failed"
    /\ Len(entered) = 3
    /\ ~entered[3].ok
    /\ Len(exited) = 2
    /\ exited[1] = Pair(entered[2])

\* C4: add_healthcheck under a registered name raises ValueError and leaves
\* the registry as it was; under a new name it appends the check.  No
\* operation rebinds or moves an entry, and the names stay distinct: each
\* name stays bound to the first check registered under it.
C4_DuplicateName ==
    [][/\ last'.op = "add_healthcheck" =>
              IF last'.args.name \in Range(HealthcheckKeys(healthchecks))
              THEN /\ last'.raised = "ValueError"
                   /\ healthchecks' = healthchecks
              ELSE /\ last'.raised = "none"
                   /\ healthchecks' = Append(healthchecks, last'.args)
       /\ \A i \in 1..Len(healthchecks) :
              /\ i <= Len(healthchecks')
              /\ healthchecks'[i] = healthchecks[i]
       /\ \A i, j \in 1..Len(healthchecks') :
              healthchecks'[i].name = healthchecks'[j].name => i = j]_vars

\* C4, witness: registering another check under a taken name has raised,
\* and the name is still bound to the first one.
C4_Witness ==
    /\ last.op = "add_healthcheck"
    /\ last.raised = "ValueError"
    /\ Len(healthchecks) = 2
    /\ \E i \in 1..2 :
           /\ healthchecks[i].name = last.args.name
           /\ healthchecks[i].healthcheck # last.args.healthcheck

\* The fixture that sends a request.
FixtureOf(req) ==
    CASE req = "emit" -> "amqp_event_emitter"
      [] req \in {"snapshot", "restore"} ->
             "os2mo_database_snapshot_and_restore"
      [] OTHER -> "amqp_queue_isolation"

\* C5: every HTTP error answer a fixture gets makes that fixture raise, so
\* that the test fails; and the test body never runs while the broker holds
\* a queue whose deletion was answered with an error.
C5_HttpErrorsPropagate ==
    /\ hpc = "done" =>
           \A r \in answers :
               r.answer = "http_error" => FixtureOf(r.req) \in errors
    /\ hpc = "test_body" =>
           \A q \in broker : Answer("delete", q, "http_error") \notin answers

\* C6: the teardown of amqp_event_emitter ends only once the task is done;
\* a task it cancelled ends cancelled and the teardown raises nothing; a
\* task that had failed on an emit request makes the teardown raise; no emit
\* request is sent less than the sleep interval after the task was created,
\* and none once the task was cancelled.
C6_EmitterTeardown ==
    /\ [](/\ hpc = "done" => task \in {"cancelled", "failed"}
          /\ (hpc = "done" /\ cancel_requested) =>
                 /\ task = "cancelled"
                 /\ "amqp_event_emitter" \notin errors
          /\ (hpc = "done" /\ task = "failed") =>
                 "amqp_event_emitter" \in errors
          /\ "amqp_event_emitter" \in errors => task = "failed"
          /\ \A i \in 1..Len(emits) :
                 emits[i] >= created_at + SleepInterval)
    /\ [][(hpc \in {"emitter_await", "done"}) => emits' = emits]_vars

\* C6, witness: an emit request failed during the test, and the teardown
\* has raised the task's exception.
C6_WitnessFailed ==
    /\ hpc = "done"
    /\ task = "failed"
    /\ Len(emits) >= 1
    /\ Answer("emit", 0, "http_error") \in answers
    /\ "amqp_event_emitter" \in errors

\* C7 as stated: on every readiness probe each registered check is invoked
\* exactly once, in registration order.
C7_EveryCheckInvoked ==
    [][last'.op = "readiness" =>
         [i \in 1..Len(last'.calls) |-> last'.calls[i].name]
             = HealthcheckKeys(healthchecks)]_vars

\* C7, amended: a probe invokes the registered checks in registration
\* order, each at most once and with the shared context, up to and
\* including the first check that raises; the checks after a raising one
\* are not invoked.  If no check raises, each is invoked exactly once: a
\* check that returns false does not stop the checks after it.
C7_InvokedUntilRaise ==
    [][last'.op = "readiness" =>
         LET calls == last'.calls
             n == Len(healthchecks)
         IN  /\ Len(calls) <= n
             /\ \A i \in 1..Len(calls) :
                    /\ calls[i].name = healthchecks[i].name
                    /\ calls[i].healthcheck = healthchecks[i].healthcheck
                    /\ calls[i].context = name
                    /\ calls[i].outcome = "raise" => i = Len(calls)
             /\ Len(calls) < n =>
                    /\ Len(calls) > 0
                    /\ calls[Len(calls)].outcome = "raise"]_vars

\* C7, witness: a probe whose first check returned false went on to invoke
\* the second.
C7_Witness ==
    /\ last.op = "readiness"
    /\ Len(healthchecks) = 2
    /\ Len(last.calls) = 2
    /\ last.calls[1].outcome = "false"

\* C8: add_context binds every key it is given to the value given, keeps
\* the value of every other key, adds no other key, and leaves the health
\* checks, the lifespan managers, the name and the settings as they were.
C8_LastWriteWins ==
    [][last'.op = "add_context" =>
         LET kwargs == last'.args
         IN  /\ DOMAIN user_context' = DOMAIN user_context \cup DOMAIN kwargs
             /\ \A k \in DOMAIN kwargs : user_context'[k] = kwargs[k]
             /\ \A k \in DOMAIN user_context \ DOMAIN kwargs :
                    user_context'[k] = user_context[k]
             /\ UNCHANGED <<healthchecks, lifespan_managers, name,
                            settings>>]_vars

\* C8, witness: a call that named only key "a" was made on a context that
\* held "b" (and health checks and lifespan managers), and "b" is kept.
C8_Witness ==
    /\ last.op = "add_context"
    /\ DOMAIN last.args = {"a"}
    /\ DOMAIN user_context = {"a", "b"}
    /\ user_context["a"] = last.args["a"]
    /\ user_context["a"] # user_context["b"]
    /\ healthchecks # <<>>
    /\ DOMAIN lifespan_managers # {}

\* C9: a liveness probe can be answered in every state, is answered 204,
\* invokes no health check and changes nothing of the context.
C9_LivenessAlways204 ==
    /\ [](ENABLED liveness)
    /\ [][last'.op = "liveness" =>
            /\ last'.status = HTTP_204_NO_CONTENT
            /\ last'.raised = "none"
            /\ last'.calls = <<>>
            /\ UNCHANGED ctx_vars]_vars

\* C9, witness: a liveness probe answered 204 with two health checks, several
\* lifespan managers and a user context registered.
C9_Witness ==
    /\ last.op = "liveness"
    /\ last.status = HTTP_204_NO_CONTENT
    /\ Len(healthchecks) = 2
    /\ Cardinality(Pairs(lifespan_managers)) > 1
    /\ DOMAIN user_context = Keys

\* C10: add_lifespan_manager adds exactly the (priority, manager) pair it is
\* given, priority 1000 when none is given, and nothing when the pair is
\* registered already.  A startup enters no pair twice and only registered
\* pairs; one that reaches serving has entered each registered pair exactly
\* once, a manager registered under two priorities
\* once per priority, those of priority 1000 after those of a lower one; a
\* completed shutdown has exited each pair exactly once.
C10_SetSemantics ==
    /\ [](/\ \A i, j \in 1..Len(entered) :
                 Pair(entered[i]) = Pair(entered[j]) => i = j
          /\ phase # "setup" =>
                 {<<e.priority, e.manager>> : e \in Range(entered)}
                     \subseteq Pairs(lifespan_managers)
          /\ phase = "serving" =>
                 /\ Len(entered) = Cardinality(Pairs(lifespan_managers))
                 /\ {<<e.priority, e.manager>> : e \in Range(entered)}
                        = Pairs(lifespan_managers)
                 /\ \A e \in Range(entered) : e.ok
          /\ phase = "stopped" =>
                 /\ Len(exited) = Cardinality(Pairs(lifespan_managers))
                 /\ {<<e.priority, e.manager>> : e \in Range(exited)}
                        = Pairs(lifespan_managers)
          /\ (last.op = "add_lifespan_manager"
              /\ "priority" \notin DOMAIN last.args) =>
                 <<DefaultPriority, last.args.manager>>
                     \in Pairs(lifespan_managers)
          /\ \A i, j \in 1..Len(entered) :
                 (entered[i].priority < DefaultPriority
                  /\ entered[j].priority = DefaultPriority) => i < j)
    /\ [][last'.op = "add_lifespan_manager" =>
            LET kw == last'.args
                priority == IF "priority" \in DOMAIN kw THEN kw.priority
                            ELSE DefaultPriority
            IN  Pairs(lifespan_managers') =
                    Pairs(lifespan_managers) \cup {<<priority, kw.manager>>}
       ]_vars

\* C10, witness: manager 1, registered under priority 10 and, by a call that
\* gave no priority, under 1000, was entered twice and exited twice.
C10_Witness ==
    /\ phase = "stopped"
    /\ <<10, 1>> \in Pairs(lifespan_managers)
    /\ <<DefaultPriority, 1>> \in Pairs(lifespan_managers)
    /\ Cardinality({i \in 1..Len(entered) : entered[i].manager = 1}) = 2
    /\ Cardinality({i \in 1..Len(exited) : exited[i].manager = 1}) = 2

====
